---- MODULE Spec2Model ----
(***************************************************************************)
(* Historical bar retrieval of the TWS adapter                             *)
(* (src/server/trading/infraestructure/tws_adapter.py):                    *)
(*   - get_historical_bars: the backward pagination loop of one symbol;    *)
(*   - get_historical_bars_multiple: the fan-out of that loop over a list  *)
(*     of symbols behind an asyncio.Semaphore, each wrapped in wait_for.   *)
(* Every await of the code is a step boundary of the model: a coroutine    *)
(* runs from one await to the next in one action.                          *)
(*                                                                         *)
(* Time is counted in ticks of 1/TicksPerSecond second, so that a range    *)
(* may span a fraction of a second (datetime has microseconds); provider   *)
(* bars are stamped on whole seconds (bars of intraday sizes) or on whole  *)
(* days (bars of size 1d, which the provider delivers as date objects).    *)
(***************************************************************************)
EXTENDS Integers, Sequences, FiniteSets, TLC

\* ------------------------------------------------------------------ bounds
NumSymbols == 3      \* symbols the caller may ask for
MaxConcurrent == 2   \* largest max_concurrent the caller passes
MaxBar == 2          \* the provider holds bars number 0..MaxBar
MaxChunkLen == 2     \* longest chunk the provider answers with
MaxCalls == 4        \* connect() and disconnect() calls of a session, each
ScenarioBars == 5    \* daily bars of the one-chunk provider

\* --------------------------------------------------------- program values
max_iterations == 200
SecondsPerDay == 86400
TicksPerSecond == 2

Symbols == 1..NumSymbols

\* Optional[float]: None is the empty sequence, a value v is <<v>>.
None == << >>
Some(v) == <<v>>

\* ------------------------------------------------------------ value_objects

\* A TimeRange that accepts every pair.
TimeRangeAlwaysValid(start, end) == TRUE

\* TimeRange.__post_init__: construction fails unless end is after start.
TimeRangeValid(start, end) == ~(end <= start)

\* What kind of object bar.date is: a datetime (intraday bar sizes) or a
\* date (bar size 1d).  formatDate=2 makes the provider deliver one of the
\* two, never a string.
DateKinds == {"datetime", "date"}

\* ---------------------------------------------------------------- provider

\* The raw date of the provider's bar number b.
RawDate(kind, b) == IF kind = "date" THEN b ELSE b * TicksPerSecond

\* The provider's volume of a symbol's bar number b: negative (the
\* provider's "unavailable"), zero and positive volumes all occur, and no
\* two symbols have the same bars.
ProviderVolume(symbol, b) == b - symbol

\* The prices the provider reports for bar b: four different numbers per
\* bar, and different from one bar to the next.
ProviderPrices(b) ==
    [open |-> 10 * b + 2, high |-> 10 * b + 4, low |-> 10 * b + 1, close |-> 10 * b + 3]

ProviderBar(symbol, kind, b) ==
    [date |-> RawDate(kind, b),
     open |-> ProviderPrices(b).open,
     high |-> ProviderPrices(b).high,
     low |-> ProviderPrices(b).low,
     close |-> ProviderPrices(b).close,
     volume |-> ProviderVolume(symbol, b)]

ProviderBars(symbol, kind) == {ProviderBar(symbol, kind, b) : b \in 0..MaxBar}

\* Every non-empty chunk of at most MaxChunkLen bars, in any order.
Chunks(symbol, kind) ==
    UNION {[1..n -> ProviderBars(symbol, kind)] : n \in 1..MaxChunkLen}

\* lines 289-298: the datetime a bar date stands for; a date is midnight UTC.
ToDatetime(kind, raw) ==
    IF kind = "date" THEN raw * SecondsPerDay * TicksPerSecond ELSE raw

\* The ranges asked for: from a bar's time, or one tick after it, to the
\* time of the provider's latest bar.
TimeRanges(kind) ==
    {tr \in {[start |-> ToDatetime(kind, RawDate(kind, b)) + f,
              end |-> ToDatetime(kind, RawDate(kind, MaxBar))] :
                 b \in 0..MaxBar, f \in 0..1} :
        TimeRangeValid(tr.start, tr.end)}

\* Start and end of ranges of no or negative duration.
EmptyRanges(kind) ==
    {[start |-> ToDatetime(kind, RawDate(kind, MaxBar)),
      end |-> ToDatetime(kind, RawDate(kind, b))] : b \in {MaxBar - 1, MaxBar}}

\* A provider that serves a fixed history: the at most MaxChunkLen latest
\* bars stamped at or before endDateTime, oldest first.
HistoryChunk(symbol, kind, endDateTime) ==
    LET have == {b \in 0..MaxBar : ToDatetime(kind, RawDate(kind, b)) <= endDateTime}
    IN  IF have = {} THEN << >>
        ELSE LET hi == CHOOSE b \in have : \A c \in have : c <= b
                 lo == IF hi - MaxChunkLen + 1 > 0 THEN hi - MaxChunkLen + 1 ELSE 0
             IN  [k \in 1..(hi - lo + 1) |-> ProviderBar(symbol, kind, lo + k - 1)]

\* A provider of daily bars that holds ScenarioBars bars, from the day the
\* range starts on, and answers every request with all of them; the range
\* asked of it ends the day after the last bar.
ScenarioChunk(symbol) ==
    [k \in 1..ScenarioBars |-> ProviderBar(symbol, "date", k - 1)]

ScenarioRange ==
    [start |-> ToDatetime("date", 0), end |-> ToDatetime("date", ScenarioBars)]

\* ------------------------------------------------------------ pure helpers

\* A division that rounds down.
FloorDiv(a, b) == a \div b

\* math.ceil(a / b) for positive b
CeilDiv(a, b) == (a + b - 1) \div b

ValueError == [ok |-> FALSE, n |-> 0, unit |-> "-"]

\* A planner whose weeks end at 52 weeks, where months begin.
WeeksUpToOneYear(start, end) ==
    LET total_seconds == (end - start) \div TicksPerSecond
        total_days == CeilDiv(total_seconds, 86400)
        total_weeks == CeilDiv(total_days, 7)
        total_months == CeilDiv(total_days, 30)
        total_years == CeilDiv(total_days, 365)
    IN  IF total_seconds <= 0 THEN ValueError
        ELSE IF total_seconds <= 86400 THEN [ok |-> TRUE, n |-> total_seconds, unit |-> "S"]
        ELSE IF total_days <= 365 THEN [ok |-> TRUE, n |-> total_days, unit |-> "D"]
        ELSE IF total_weeks <= 52 THEN [ok |-> TRUE, n |-> total_weeks, unit |-> "W"]
        ELSE IF total_months <= 12 * 5 THEN [ok |-> TRUE, n |-> total_months, unit |-> "M"]
        ELSE [ok |-> TRUE, n |-> total_years, unit |-> "Y"]

\* lines 69-98
_compute_duration_str(start, end) ==
    LET total_seconds == (end - start) \div TicksPerSecond
        total_days == CeilDiv(total_seconds, 86400)
        total_weeks == CeilDiv(total_days, 7)
        total_months == CeilDiv(total_days, 30)
        total_years == CeilDiv(total_days, 365)
    IN  IF total_seconds <= 0 THEN ValueError
        ELSE IF total_seconds <= 86400 THEN [ok |-> TRUE, n |-> total_seconds, unit |-> "S"]
        ELSE IF total_days <= 365 THEN [ok |-> TRUE, n |-> total_days, unit |-> "D"]
        ELSE IF total_weeks <= 52 * 5 THEN [ok |-> TRUE, n |-> total_weeks, unit |-> "W"]
        ELSE IF total_months <= 12 * 5 THEN [ok |-> TRUE, n |-> total_months, unit |-> "M"]
        ELSE [ok |-> TRUE, n |-> total_years, unit |-> "Y"]

\* lines 269-271: TimeRange(start, current_end) then _compute_duration_str;
\* either may raise ValueError.
PlanWindow(start, current_end) ==
    IF ~TimeRangeValid(start, current_end) THEN ValueError
    ELSE _compute_duration_str(start, current_end)

\* The spans handed to _compute_duration_str directly: whole days around
\* every threshold of the function, a second less or more, and a fraction
\* of a second more; zero and negative spans among them.
PlannerDays ==
    {0, 1, 2, 364, 365, 366, 1799, 1800, 1801, 1819, 1820, 1821, 1824, 1825, 1826, 2190}

PlannerSpans ==
    {(d * SecondsPerDay + r) * TicksPerSecond + f :
        d \in PlannerDays, r \in {-1, 0, 1}, f \in 0..(TicksPerSecond - 1)}

PlannerStarts == {0, 1}

\* lines 146-157
\* A mapping that tests the volume for truth: a volume of zero is absent too.
VolumeIfTruthy(ib_bars) ==
    [k \in 1..Len(ib_bars) |->
        [date |-> ib_bars[k].date,
         open |-> ib_bars[k].open,
         high |-> ib_bars[k].high,
         low |-> ib_bars[k].low,
         close |-> ib_bars[k].close,
         volume |-> IF ib_bars[k].volume > 0 THEN Some(ib_bars[k].volume) ELSE None]]

_bars_to_ohlcv(ib_bars) ==
    [k \in 1..Len(ib_bars) |->
        [date |-> ib_bars[k].date,
         open |-> ib_bars[k].open,
         high |-> ib_bars[k].high,
         low |-> ib_bars[k].low,
         close |-> ib_bars[k].close,
         volume |-> IF ib_bars[k].volume >= 0 THEN Some(ib_bars[k].volume) ELSE None]]


\* ------------------------------------------------------------------- state
VARIABLES
    _connected,     \* TWSAdapter._connected
    ib_channel,     \* the socket of self._ib: "closed", "open", or "dropped" by the peer
    connections,    \* connections the provider holds open with this adapter
    connect_calls,  \* calls of connect() so far
    disconnect_calls, \* calls of disconnect() so far
    ib_disconnects, \* calls of self._ib.disconnect() so far
    scope,          \* the "async with adapter" block: "outside", "inside", "failed", "exited"
    qualify_calls,  \* per symbol: qualifyContractsAsync calls of its retrieval
    resolution,     \* per symbol: how qualifyContractsAsync answered: "none",
                    \* "pending", "qualified", "empty", "raised"
    previous,       \* what the call before this one ended with (a second call of the same request)
    planned,        \* the last direct call of _compute_duration_str: its range and result
    phase,          \* the caller's call: "idle", "running", "returned", "raised",
                    \* "cancelling", "cancelled"
    entry,          \* which entry point was called: "none", "single", "batch"
    symbols,        \* the symbols of the call
    time_range,     \* the call's TimeRange
    dateKind,       \* what bar.date is for the call's bar size
    provider,       \* "history" (a fixed history), "scenario" (all bars in one
                    \* chunk) or "arbitrary" (any chunk)
    max_concurrent, \* the batch's max_concurrent
    semaphore,      \* free slots of the batch's asyncio.Semaphore
    pc,             \* per symbol: where its coroutine stands
    outcome,        \* per symbol: what its coroutine ended with
    terminal,       \* per symbol: how its retrieval ended (a label for the claims)
    all_ohlcv,      \* per symbol: the accumulator of get_historical_bars
    current_end,    \* per symbol: the cursor of get_historical_bars
    iteration,      \* per symbol: chunk requests issued so far
    duration_str,   \* per symbol: durationStr of the request in flight
    received,       \* per symbol: the non-empty answers received, first to last
    results         \* the mapping get_historical_bars_multiple returns

vars == <<_connected, ib_channel, connections, connect_calls, disconnect_calls,
          ib_disconnects, scope, qualify_calls, resolution, previous, planned,
          phase, entry, symbols, time_range, dateKind, provider,
          max_concurrent, semaphore, pc, outcome, terminal, all_ohlcv,
          current_end, iteration, duration_str, received, results>>

sessionVars == <<_connected, ib_channel, connections, connect_calls, disconnect_calls,
                 ib_disconnects, scope>>
fixedVars == <<sessionVars, previous, planned>>

callVars == <<entry, symbols, time_range, dateKind, provider, max_concurrent>>
loopVars == <<all_ohlcv, current_end, iteration, duration_str, received>>

NoOutcome == [kind |-> "none", bars |-> << >>]
Value(bars) == [kind |-> "value", bars |-> bars]
Exception == [kind |-> "exception", bars |-> << >>]

\* line 170-172 (and no call made yet)
NoPrevious ==
    [called |-> FALSE, outcome |-> NoOutcome, terminal |-> "none",
     received |-> << >>, current_end |-> 0, duration_str |-> ValueError]

Init ==
    /\ _connected = FALSE
    /\ ib_channel = "closed"
    /\ connections = 0
    /\ connect_calls = 0
    /\ disconnect_calls = 0
    /\ ib_disconnects = 0
    /\ scope = "outside"
    /\ qualify_calls = [i \in Symbols |-> 0]
    /\ resolution = [i \in Symbols |-> "none"]
    /\ previous = NoPrevious
    /\ planned = [start |-> 0, end |-> 0, result |-> ValueError]
    /\ phase = "idle"
    /\ entry = "none"
    /\ symbols = {}
    /\ time_range = [start |-> 0, end |-> 0]
    /\ dateKind = "datetime"
    /\ provider = "history"
    /\ max_concurrent = 0
    /\ semaphore = 0
    /\ pc = [i \in Symbols |-> "none"]
    /\ outcome = [i \in Symbols |-> NoOutcome]
    /\ terminal = [i \in Symbols |-> "none"]
    /\ all_ohlcv = [i \in Symbols |-> << >>]
    /\ current_end = [i \in Symbols |-> 0]
    /\ iteration = [i \in Symbols |-> 0]
    /\ duration_str = [i \in Symbols |-> ValueError]
    /\ received = [i \in Symbols |-> << >>]
    /\ results = << >>

\* ------------------------------------------------------------------ session

\* self._ib.isConnected()
IsConnected(channel) == channel = "open"

\* A connect that leaves the prior connection open.
NoTeardown(channel, n) == n

\* lines 176-179: the provider's connections after connect has torn down
\* the prior one, if there is one.
Teardown(channel, n) == IF IsConnected(channel) THEN n - 1 ELSE n

\* lines 175-186: connect(), with connectAsync succeeding (ok) or raising.
\* When it raises, line 186 is not reached and _connected keeps its value.
ConnectBody(ok) ==
    /\ connect_calls' = connect_calls + 1
    /\ ib_disconnects' = IF IsConnected(ib_channel) THEN ib_disconnects + 1
                         ELSE ib_disconnects
    /\ IF ok
       THEN /\ ib_channel' = "open"
            /\ connections' = Teardown(ib_channel, connections) + 1
            /\ _connected' = TRUE
       ELSE /\ ib_channel' = "closed"
            /\ connections' = Teardown(ib_channel, connections)
            /\ UNCHANGED _connected

\* lines 189-193: disconnect().
DisconnectBody ==
    /\ disconnect_calls' = disconnect_calls + 1
    /\ IF IsConnected(ib_channel)
       THEN /\ ib_disconnects' = ib_disconnects + 1
            /\ ib_channel' = "closed"
            /\ connections' = connections - 1
            /\ _connected' = FALSE
       ELSE UNCHANGED <<ib_disconnects, ib_channel, connections, _connected>>

requestVars == <<phase, callVars, semaphore, pc, outcome, terminal, loopVars,
                 results, qualify_calls, resolution, previous, planned>>

\* A call of connect() outside any "async with" block.
Connect(ok) ==
    /\ phase = "idle"
    /\ scope = "outside"
    /\ ConnectBody(ok)
    /\ UNCHANGED <<disconnect_calls, scope, requestVars>>

\* A call of disconnect() outside any "async with" block.
Disconnect ==
    /\ phase = "idle"
    /\ scope = "outside"
    /\ DisconnectBody
    /\ UNCHANGED <<connect_calls, scope, requestVars>>

\* The peer, or the network, closes the socket.
Drop ==
    /\ IsConnected(ib_channel)
    /\ ib_channel' = "dropped"
    /\ connections' = connections - 1
    /\ UNCHANGED <<_connected, connect_calls, disconnect_calls, ib_disconnects,
                   scope, requestVars>>

\* lines 195-197, prueba_servicio.py lines 27-28: "async with" on a new
\* adapter runs __aenter__, which connects; when connect raises the block
\* is not entered and __aexit__ is not run.
ScopeEnter(ok) ==
    /\ scope = "outside"
    /\ phase = "idle"
    /\ connect_calls = 0 /\ disconnect_calls = 0
    /\ ConnectBody(ok)
    /\ scope' = IF ok THEN "inside" ELSE "failed"
    /\ UNCHANGED <<disconnect_calls, requestVars>>

\* prueba_servicio.py lines 29-30: the body of the block raises without
\* reaching the adapter.
BodyRaises ==
    /\ scope = "inside"
    /\ phase = "idle"
    /\ phase' = "raised"
    /\ UNCHANGED <<sessionVars, callVars, semaphore, pc, outcome, terminal,
                   loopVars, results, qualify_calls, resolution, previous, planned>>

\* A block that is left properly only when its body returns.
BodyReturned(ph) == ph = "returned"

\* "async with": the body of the block is over, however it ended.
BodyEnded(ph) == ph \in {"returned", "raised", "cancelled"}

\* lines 199-200: the body of the block has returned or raised, and
\* __aexit__ disconnects.
ScopeExit ==
    /\ scope = "inside"
    /\ BodyEnded(phase)
    /\ DisconnectBody
    /\ scope' = "exited"
    /\ UNCHANGED <<connect_calls, requestVars>>

\* ------------------------------------------------------- coroutine endings

\* A task that ends without giving its slot back.
SemaphoreKept(value) == value

\* line 327, leaving "async with semaphore": the slot is given back.
SemaphoreRelease(value) == value + 1

\* A semaphore that never makes a task wait.
SemaphoreNeverLocked(value) == FALSE

\* line 327, entering "async with semaphore": a slot must be free.
SemaphoreLocked(value) == value = 0

\* The coroutine of symbol i ends with outcome o.  Called directly
\* (entry "single") the caller gets o; inside a batch, _fetch_one leaves the
\* semaphore block (lines 327-342) and the task is done.
Finish(i, o, term) ==
    /\ pc' = [pc EXCEPT ![i] = "done"]
    /\ outcome' = [outcome EXCEPT ![i] = o]
    /\ terminal' = [terminal EXCEPT ![i] = term]
    /\ IF entry = "batch"
       THEN /\ semaphore' = SemaphoreRelease(semaphore)
            /\ UNCHANGED phase
       ELSE /\ phase' = IF o.kind = "value" THEN "returned" ELSE "raised"
            /\ UNCHANGED semaphore

\* ------------------------------------------------------------- entry points

\* lines 243-258: get_historical_bars up to its first await.
StartRetrieval(i) ==
    /\ pc' = [pc EXCEPT ![i] = "qualify"]
    /\ qualify_calls' = [qualify_calls EXCEPT ![i] = 1]
    /\ resolution' = [resolution EXCEPT ![i] = "pending"]
    /\ received' = [received EXCEPT ![i] = << >>]
    /\ iteration' = [iteration EXCEPT ![i] = 0]
    /\ UNCHANGED all_ohlcv

\* An entry point that goes on without a connection.
NotConnectedGoesOn(connected) == FALSE

\* lines 243-244, 321-322: if not self._connected: raise ValueError
NotConnectedRaises(connected) == ~connected

\* A direct call of get_historical_bars (lines 233-258).  The caller builds
\* the TimeRange first (value_objects.py lines 98-100): when that raises,
\* the adapter is not called.
CallSingle(i, tr, kind, prov) ==
    /\ phase = "idle"
    /\ entry' = "single"
    /\ symbols' = {i}
    /\ time_range' = tr
    /\ dateKind' = kind
    /\ provider' = prov
    /\ UNCHANGED <<fixedVars, max_concurrent, semaphore, results, current_end, duration_str>>
    /\ IF ~TimeRangeValid(tr.start, tr.end)
       THEN /\ phase' = "raised"
            /\ terminal' = [terminal EXCEPT ![i] = "InvalidRange"]
            /\ outcome' = [outcome EXCEPT ![i] = Exception]
            /\ UNCHANGED <<pc, all_ohlcv, received, iteration, qualify_calls, resolution>>
       ELSE IF NotConnectedRaises(_connected)
       THEN /\ phase' = "raised"
            /\ terminal' = [terminal EXCEPT ![i] = "NotConnected"]
            /\ outcome' = [outcome EXCEPT ![i] = Exception]
            /\ UNCHANGED <<pc, all_ohlcv, received, iteration, qualify_calls, resolution>>
       ELSE /\ phase' = "running"
            /\ StartRetrieval(i)
            /\ UNCHANGED <<terminal, outcome>>

\* The direct call of symbol i is over, and the caller makes it again:
\* the same symbol, range and bar size, on the adapter as the first call
\* left it (lines 233-258).
CallAgain(i) ==
    /\ entry = "single"
    /\ phase \in {"returned", "raised"}
    /\ symbols = {i}
    /\ ~previous.called
    /\ TimeRangeValid(time_range.start, time_range.end)
    /\ _connected
    /\ previous' = [called |-> TRUE, outcome |-> outcome[i], terminal |-> terminal[i],
                    received |-> received[i], current_end |-> current_end[i],
                    duration_str |-> duration_str[i]]
    /\ phase' = "running"
    /\ outcome' = [outcome EXCEPT ![i] = NoOutcome]
    /\ terminal' = [terminal EXCEPT ![i] = "none"]
    /\ StartRetrieval(i)
    /\ UNCHANGED <<sessionVars, planned, callVars, semaphore, results,
                   current_end, duration_str>>

\* A call of get_historical_bars_multiple for the symbols 1..n
\* (lines 310-345): the checks, the semaphore, one task per symbol.
CallBatch(n, mc, tr, kind) ==
    /\ phase = "idle"
    /\ entry' = "batch"
    /\ symbols' = 1..n
    /\ time_range' = tr
    /\ dateKind' = kind
    /\ provider' = "history"
    /\ max_concurrent' = mc
    /\ UNCHANGED <<fixedVars, qualify_calls, resolution, outcome, terminal, loopVars, results>>
    /\ IF NotConnectedRaises(_connected) \/ mc < 0
       THEN \* line 322, or asyncio.Semaphore rejecting a negative value
            /\ phase' = "raised"
            /\ UNCHANGED <<semaphore, pc>>
       ELSE /\ phase' = "running"
            /\ semaphore' = mc
            /\ pc' = [i \in Symbols |-> IF i \in 1..n THEN "waiting" ELSE "none"]

\* line 327-330: _fetch_one passes the semaphore and starts
\* get_historical_bars under wait_for.
Admit(i) ==
    /\ phase = "running" /\ entry = "batch"
    /\ pc[i] = "waiting"
    /\ ~SemaphoreLocked(semaphore)
    /\ semaphore' = semaphore - 1
    /\ StartRetrieval(i)
    /\ UNCHANGED <<fixedVars, phase, callVars, outcome, terminal, current_end,
                   duration_str, results>>

\* ------------------------------------------------- a deterministic provider

\* When the request in hand is made a second time (previous.called), the
\* provider answers what it answered the first time: the same way to
\* qualify, and to a chunk request of the same endDateTime and durationStr
\* the same bars, the same empty answer or the same error.  A request the
\* first call never made may be answered anyhow.
SameAnswer(i, what, bars) ==
    IF ~previous.called THEN TRUE
    ELSE IF what = "qualified"
    THEN previous.terminal \notin {"NotQualified", "QualifyRaised"}
    ELSE IF what = "not qualified" THEN previous.terminal = "NotQualified"
    ELSE IF what = "qualify raises" THEN previous.terminal = "QualifyRaised"
    ELSE LET asked == {k \in 1..Len(previous.received) :
                          /\ previous.received[k].endDateTime = current_end[i]
                          /\ previous.received[k].durationStr = duration_str[i]}
             last == /\ previous.terminal \in {"Exhausted", "Failed"}
                     /\ previous.current_end = current_end[i]
                     /\ previous.duration_str = duration_str[i]
         IN  IF last
             THEN what = (IF previous.terminal = "Exhausted" THEN "empty" ELSE "raises")
             ELSE IF asked # {}
             THEN what = "bars" /\ \E k \in asked : previous.received[k].bars = bars
             ELSE TRUE

\* --------------------------------------------------------- pagination loop

\* A loop that runs one pass more.
LoopExhaustedOnePassLate(passes) == passes > max_iterations

\* line 268: the loop has used its max_iterations passes.
LoopExhausted(passes) == passes >= max_iterations

\* A loop that goes on when the earliest bar is exactly at the start.
ReachedStartStrict(earliest, start) == earliest < start

\* line 300
ReachedStart(earliest, start) == earliest <= start

\* An accumulator that outlives the call.
KeptAccumulator(acc) == acc

\* line 263: all_ohlcv = []
FreshAccumulator(acc) == << >>

\* An accumulator grown at the wrong end.
AppendInstead(chunk, acc) == acc \o chunk

\* line 287
Prepend(chunk, acc) == chunk \o acc

\* A handler that returns the bars accumulated before the error.
ReturnsAccumulated(acc) == acc

\* lines 304-305: except Exception: return []
ReturnsNothing(acc) == << >>

\* lines 268-281: pass number k of the loop starts with cursor c: plan the
\* window and issue the request, or raise inside the try block.
BeginPass(i, k, c, acc, rcv) ==
    LET d == PlanWindow(time_range.start, c)
    IN  /\ all_ohlcv' = [all_ohlcv EXCEPT ![i] = acc]
        /\ received' = [received EXCEPT ![i] = rcv]
        /\ current_end' = [current_end EXCEPT ![i] = c]
        /\ IF d.ok
           THEN /\ iteration' = [iteration EXCEPT ![i] = k]
                /\ duration_str' = [duration_str EXCEPT ![i] = d]
                /\ pc' = [pc EXCEPT ![i] = "fetch"]
                /\ UNCHANGED <<outcome, terminal, semaphore, phase>>
           ELSE \* lines 304-305
                /\ UNCHANGED <<iteration, duration_str>>
                /\ Finish(i, Value(ReturnsNothing(acc)), "PlanFailed")

\* A retrieval that goes on with a contract that was not qualified.
NotQualifiedGoesOn(qualified) == FALSE

\* lines 259-260: if not qualified: raise ValueError
NotQualifiedRaises(qualified) == ~qualified

\* line 258-264: qualifyContractsAsync answers.
QualifyReturns(i, qualified) ==
    /\ phase = "running"
    /\ pc[i] = "qualify"
    /\ SameAnswer(i, IF qualified THEN "qualified" ELSE "not qualified", << >>)
    /\ resolution' = [resolution EXCEPT ![i] = IF qualified THEN "qualified" ELSE "empty"]
    /\ UNCHANGED <<fixedVars, qualify_calls, callVars, results>>
    /\ IF NotQualifiedRaises(qualified)
       THEN \* line 260
            /\ Finish(i, Exception, "NotQualified")
            /\ UNCHANGED loopVars
       ELSE BeginPass(i, 1, time_range.end, FreshAccumulator(all_ohlcv[i]), << >>)

\* line 258: qualifyContractsAsync raises.
QualifyRaises(i) ==
    /\ phase = "running"
    /\ pc[i] = "qualify"
    /\ SameAnswer(i, "qualify raises", << >>)
    /\ resolution' = [resolution EXCEPT ![i] = "raised"]
    /\ Finish(i, Exception, "QualifyRaised")
    /\ UNCHANGED <<fixedVars, qualify_calls, callVars, loopVars, results>>

\* The non-empty chunks the provider may answer the request in flight with.
\* The arbitrary provider answers anything, but the same request the same.
ProviderAnswers(i) ==
    IF provider = "history"
    THEN {HistoryChunk(i, dateKind, current_end[i])} \ {<< >>}
    ELSE IF provider = "scenario" THEN {ScenarioChunk(i)}
    ELSE LET prior == {k \in 1..Len(received[i]) :
                          received[i][k].endDateTime = current_end[i]}
         IN  IF prior = {} THEN Chunks(i, dateKind)
             ELSE {received[i][k].bars : k \in prior}

\* lines 273-303: reqHistoricalDataAsync answers a non-empty chunk.
ChunkReturns(i, bars) ==
    /\ phase = "running"
    /\ pc[i] = "fetch"
    /\ bars \in ProviderAnswers(i)
    /\ SameAnswer(i, "bars", bars)
    /\ UNCHANGED <<fixedVars, qualify_calls, resolution, callVars, results>>
    /\ LET chunk == _bars_to_ohlcv(bars)
           acc == Prepend(chunk, all_ohlcv[i])
           rcv == Append(received[i], [endDateTime |-> current_end[i],
                                       durationStr |-> duration_str[i],
                                       bars |-> bars])
           earliest_bar_date == ToDatetime(dateKind, bars[1].date)
       IN  IF ReachedStart(earliest_bar_date, time_range.start)
           THEN \* lines 300-301, 307
                /\ Finish(i, Value(acc), "Completed")
                /\ all_ohlcv' = [all_ohlcv EXCEPT ![i] = acc]
                /\ received' = [received EXCEPT ![i] = rcv]
                /\ UNCHANGED <<current_end, iteration, duration_str>>
           ELSE IF LoopExhausted(iteration[i])
           THEN \* line 303, the loop ends, line 307
                /\ Finish(i, Value(acc), "Truncated")
                /\ all_ohlcv' = [all_ohlcv EXCEPT ![i] = acc]
                /\ received' = [received EXCEPT ![i] = rcv]
                /\ current_end' = [current_end EXCEPT ![i] = earliest_bar_date]
                /\ UNCHANGED <<iteration, duration_str>>
           ELSE BeginPass(i, iteration[i] + 1, earliest_bar_date, acc, rcv)

\* lines 283-284, 307: reqHistoricalDataAsync answers no bars.
ChunkEmpty(i) ==
    /\ phase = "running"
    /\ pc[i] = "fetch"
    /\ SameAnswer(i, "empty", << >>)
    /\ Finish(i, Value(all_ohlcv[i]), "Exhausted")
    /\ UNCHANGED <<fixedVars, qualify_calls, resolution, callVars, loopVars, results>>

\* lines 304-305: reqHistoricalDataAsync raises.
ChunkRaises(i) ==
    /\ phase = "running"
    /\ pc[i] = "fetch"
    /\ SameAnswer(i, "raises", << >>)
    /\ Finish(i, Value(ReturnsNothing(all_ohlcv[i])), "Failed")
    /\ UNCHANGED <<fixedVars, qualify_calls, resolution, callVars, loopVars, results>>

\* A timeout that also counts the time a task waits for the semaphore.
ClockRunsFromCreation(where) == where \in {"waiting", "qualify", "fetch"}

\* lines 327-339: wait_for wraps get_historical_bars inside "async with
\* semaphore", so the 100 seconds run from the moment the slot is taken.
ClockRunning(where) == where \in {"qualify", "fetch"}

\* lines 329-341: wait_for gives up on an admitted retrieval that is
\* waiting for the provider.
Timeout(i) ==
    /\ phase = "running" /\ entry = "batch"
    /\ ClockRunning(pc[i])
    /\ Finish(i, Value(<< >>), "TimedOut")
    /\ UNCHANGED <<fixedVars, qualify_calls, resolution, callVars, loopVars, results>>

\* lines 344-345: the caller's task is cancelled while it awaits gather;
\* gather passes the cancellation on to every task that is not done, and
\* raises to the caller once they all are.
CancelBatch ==
    /\ phase = "running" /\ entry = "batch"
    /\ phase' = "cancelling"
    /\ UNCHANGED <<fixedVars, qualify_calls, resolution, callVars, semaphore, pc, outcome,
                   terminal, loopVars, results>>

\* A task that keeps its slot when it is cancelled.
HoldsSlotNever(where) == FALSE

\* line 327: the task is inside "async with semaphore".
HoldsSlot(where) == where \in {"qualify", "fetch"}

\* lines 327-342: CancelledError is raised at the await the task of symbol
\* i stands at.  Neither "except Exception" (line 304) nor
\* "except asyncio.TimeoutError" (line 340) catches it; a task past the
\* semaphore leaves the "async with" block on its way out.
Cancelled(i) ==
    /\ phase = "cancelling"
    /\ pc[i] \in {"waiting", "qualify", "fetch"}
    /\ pc' = [pc EXCEPT ![i] = "done"]
    /\ outcome' = [outcome EXCEPT ![i] = Exception]
    /\ terminal' = [terminal EXCEPT ![i] =
                       IF pc[i] = "waiting" THEN "CancelledWaiting" ELSE "Cancelled"]
    /\ semaphore' = IF HoldsSlot(pc[i]) THEN SemaphoreRelease(semaphore) ELSE semaphore
    /\ UNCHANGED <<fixedVars, qualify_calls, resolution, phase, callVars, loopVars, results>>

\* line 345: every task is done, and gather raises CancelledError.
GatherCancelled ==
    /\ phase = "cancelling"
    /\ \A i \in symbols : pc[i] = "done"
    /\ phase' = "cancelled"
    /\ UNCHANGED <<fixedVars, qualify_calls, resolution, callVars, semaphore, pc, outcome,
                   terminal, loopVars, results>>

\* A merge that also skips the tasks that brought no bars.
GatherSkipsEmpty(syms, out) ==
    [s \in {i \in syms : out[i].kind = "value" /\ out[i].bars # << >>} |-> out[s].bars]

\* A merge that gives up on the whole batch when one task raised.
GatherAllOrNothing(syms, out) ==
    IF \E i \in syms : out[i].kind = "exception" THEN << >>
    ELSE [s \in syms |-> out[s].bars]

\* lines 347-352: the tasks that ended with an exception are skipped.
GatherResults(syms, out) ==
    [s \in {i \in syms : out[i].kind = "value"} |-> out[s].bars]

\* lines 345-354: gather has every task's result.
Gather ==
    /\ phase = "running" /\ entry = "batch"
    /\ \A i \in symbols : pc[i] = "done"
    /\ results' = GatherResults(symbols, outcome)
    /\ phase' = "returned"
    /\ UNCHANGED <<fixedVars, qualify_calls, resolution, callVars, semaphore, pc, outcome, terminal, loopVars>>

\* ----------------------------------------------------------- specifications

Retrieve(i) ==
    \/ \E q \in BOOLEAN : QualifyReturns(i, q)
    \/ QualifyRaises(i)
    \/ \E bars \in Chunks(i, dateKind) \cup {ScenarioChunk(i)} : ChunkReturns(i, bars)
    \/ ChunkEmpty(i)
    \/ ChunkRaises(i)

\* The adapter is connected, or fails to connect, once before the calls.
ConnectFirst == \E ok \in BOOLEAN : connect_calls = 0 /\ Connect(ok)

NextRetrieve ==
    \/ ConnectFirst
    \/ \E kind \in DateKinds, prov \in {"history", "arbitrary"} :
          \E tr \in TimeRanges(kind) \cup EmptyRanges(kind) :
              CallSingle(1, tr, kind, prov)
    \/ CallSingle(1, ScenarioRange, "date", "scenario")
    \/ \E i \in Symbols : Retrieve(i)

NextBatch ==
    \/ ConnectFirst
    \/ \E n \in 0..NumSymbols, mc \in (-1)..MaxConcurrent, kind \in DateKinds :
          \E tr \in TimeRanges(kind) : CallBatch(n, mc, tr, kind)
    \/ \E i \in Symbols : Admit(i)
    \/ \E i \in Symbols : Retrieve(i)
    \/ \E i \in Symbols : Timeout(i)
    \/ Gather

\* A batch that its caller may cancel.
NextCancel ==
    \/ NextBatch
    \/ CancelBatch
    \/ \E i \in Symbols : Cancelled(i)
    \/ GatherCancelled

\* prueba_servicio.py lines 25-31: a batch run inside "async with" on a new
\* adapter, while the socket may drop at any time.
NextScope ==
    \/ \E ok \in BOOLEAN : ScopeEnter(ok)
    \/ BodyRaises
    \/ /\ scope = "inside"
       /\ \E n \in 0..NumSymbols, mc \in {-1, MaxConcurrent} :
             \E tr \in TimeRanges("datetime") : CallBatch(n, mc, tr, "datetime")
    \/ \E i \in Symbols : Admit(i)
    \/ \E i \in Symbols : Retrieve(i)
    \/ \E i \in Symbols : Timeout(i)
    \/ Gather
    \/ CancelBatch
    \/ \E i \in Symbols : Cancelled(i)
    \/ GatherCancelled
    \/ Drop
    \/ ScopeExit

\* Any sequence of connect() and disconnect() calls, while the socket may
\* drop at any time, followed by a call of one of the two entry points.
NextSession ==
    \/ \E ok \in BOOLEAN : connect_calls < MaxCalls /\ Connect(ok)
    \/ disconnect_calls < MaxCalls /\ Disconnect
    \/ Drop
    \/ \E kind \in DateKinds : \E tr \in TimeRanges(kind) :
          CallSingle(1, tr, kind, "history")
    \/ \E n \in 0..NumSymbols, kind \in DateKinds : \E tr \in TimeRanges(kind) :
          CallBatch(n, MaxConcurrent, tr, kind)

\* get_historical_bars called twice with the same request, the provider
\* serving a fixed history.
NextTwice ==
    \/ ConnectFirst
    \/ \E kind \in DateKinds : \E tr \in TimeRanges(kind) :
          CallSingle(1, tr, kind, "history")
    \/ \E i \in Symbols : Retrieve(i)
    \/ CallAgain(1)

SpecRetrieve == Init /\ [][NextRetrieve]_vars

SpecBatch == Init /\ [][NextBatch]_vars

SpecCancel == Init /\ [][NextCancel]_vars

SpecScope == Init /\ [][NextScope]_vars

SpecSession == Init /\ [][NextSession]_vars

SpecTwice == Init /\ [][NextTwice]_vars

\* The event loop runs every task that can run, fires every timer, and
\* resumes gather; the provider owes no answer.
FairSpecBatch ==
    /\ SpecBatch
    /\ \A i \in Symbols : WF_vars(Admit(i))
    /\ \A i \in Symbols : WF_vars(Timeout(i))
    /\ WF_vars(Gather)


\* lines 69-98 called on their own.  The function reads only the start and
\* the end of its argument.
Plan(start, end) ==
    /\ planned' = [start |-> start, end |-> end,
                   result |-> _compute_duration_str(start, end)]
    /\ UNCHANGED <<sessionVars, previous, qualify_calls, resolution, phase, callVars,
                   semaphore, pc, outcome, terminal, loopVars, results>>

NextPlanner ==
    \E start \in PlannerStarts, span \in PlannerSpans : Plan(start, start + span)

SpecPlanner == Init /\ [][NextPlanner]_vars


\* ============================================================ the claims

InFlight == {i \in symbols : pc[i] \in {"qualify", "fetch"}}

BatchReturned == entry = "batch" /\ phase = "returned"

\* What a retrieval has fetched: its answers' bars, mapped, the answer
\* received last (the oldest bars) first.
RECURSIVE StitchedBetween(_, _, _)
StitchedBetween(rcv, lo, hi) ==
    IF lo > hi THEN << >>
    ELSE IF lo = hi THEN _bars_to_ohlcv(rcv[lo].bars)
    ELSE LET mid == (lo + hi) \div 2
         IN  StitchedBetween(rcv, mid + 1, hi) \o StitchedBetween(rcv, lo, mid)

Stitched(rcv) == StitchedBetween(rcv, 1, Len(rcv))

\* lines 263-307 run alone against the fixed history with every request
\* answered: the bars get_historical_bars returns for the symbol.
RECURSIVE HistoryLoop(_, _, _, _, _, _)
HistoryLoop(symbol, kind, start, cursor, acc, passes) ==
    IF ~PlanWindow(start, cursor).ok THEN << >>
    ELSE LET bars == HistoryChunk(symbol, kind, cursor)
         IN  IF bars = << >> THEN acc
             ELSE LET grown == Prepend(_bars_to_ohlcv(bars), acc)
                      earliest == ToDatetime(kind, bars[1].date)
                  IN  IF ReachedStart(earliest, start) \/ LoopExhausted(passes) THEN grown
                      ELSE HistoryLoop(symbol, kind, start, earliest, grown, passes + 1)

RetrieveAlone(symbol, kind, tr) == HistoryLoop(symbol, kind, tr.start, tr.end, << >>, 1)

\* C1: when a batch call returns, the keys of the returned mapping are
\* exactly the requested symbols, whatever each symbol's outcome was.
C1_KeysAreRequested == BatchReturned => DOMAIN results = symbols

\* C2: at no time are more retrievals past the semaphore and unfinished
\* than max_concurrent.
C2_AtMostLimitInFlight ==
    (entry = "batch" /\ phase # "raised") => Cardinality(InFlight) <= max_concurrent

C2_Witness ==
    /\ entry = "batch"
    /\ max_concurrent = 2
    /\ Cardinality(InFlight) = 2
    /\ \E i \in symbols : pc[i] = "waiting"

\* C3: under fair scheduling of tasks and timers, every batch call that
\* started eventually returns its mapping.
C3_BatchEventuallyReturns ==
    (entry = "batch" /\ phase = "running") ~> (phase = "returned")

\* C4: when a symbol's retrieval times out, the batch raises nothing, the
\* symbol maps to the empty sequence, and every other symbol whose
\* retrieval ran to its end maps to the bars that retrieval fetched.
C4_TimeoutIsolated ==
    \A i \in symbols :
        (entry = "batch" /\ terminal[i] = "TimedOut") =>
            /\ phase # "raised"
            /\ phase = "returned" =>
                 /\ i \in DOMAIN results
                 /\ results[i] = << >>
                 /\ \A j \in symbols \ {i} :
                       terminal[j] \in {"Completed", "Exhausted", "Truncated"} =>
                          /\ j \in DOMAIN results
                          /\ results[j] = Stitched(received[j])

\* three symbols, limit two, one timed out, the other two with their bars
C4_Witness ==
    /\ BatchReturned
    /\ symbols = 1..3
    /\ max_concurrent = 2
    /\ terminal[2] = "TimedOut"
    /\ DOMAIN results = 1..3
    /\ results[2] = << >>
    /\ results[1] # << >> /\ terminal[1] = "Completed"
    /\ results[3] # << >> /\ terminal[3] = "Completed"

\* C5: a symbol whose own retrieval neither failed nor timed out maps, in
\* the batch result, to bars that its own provider answers determine and
\* nothing else does: the stitching of its own answers, which is what
\* get_historical_bars alone returns for them, whatever the other symbols'
\* outcomes and interleaving were.
C5_FailureIsolation ==
    \A j \in symbols :
        (BatchReturned /\ terminal[j] \in {"Completed", "Exhausted"}) =>
            /\ j \in DOMAIN results
            /\ results[j] = Stitched(received[j])
            /\ terminal[j] = "Completed" =>
                  results[j] = RetrieveAlone(j, dateKind, time_range)

C5_Witness ==
    /\ BatchReturned
    /\ symbols = 1..3
    /\ terminal[1] = "QualifyRaised"
    /\ terminal[2] = "Completed" /\ Len(received[2]) = 2
    /\ terminal[3] = "TimedOut"
    /\ results[2] = RetrieveAlone(2, dateKind, time_range)


\* ---------------------------------------------- claims on get_historical_bars

SingleReturned == entry = "single" /\ phase = "returned"

StrictlyAscending(bars) ==
    \A k \in 1..(Len(bars) - 1) : bars[k].date < bars[k + 1].date

\* C6: one retrieval issues at most 200 chunk requests, one per pass of the
\* loop, and has ended once the 200th is answered, whatever the provider
\* answers.
C6_AtMostCeilingRequests ==
    \A i \in Symbols :
        /\ iteration[i] <= 200
        /\ Len(received[i]) <= iteration[i]
        /\ Len(received[i]) = 200 => pc[i] = "done"

\* the provider answers every request with one bar stamped at the cursor
C6_Witness ==
    /\ SingleReturned
    /\ iteration[1] = 200
    /\ Len(received[1]) = 200
    /\ \A k \in 1..200 :
          /\ Len(received[1][k].bars) = 1
          /\ ToDatetime(dateKind, received[1][k].bars[1].date) = received[1][k].endDateTime

\* C7: when every answer is a non-empty, strictly ascending chunk, the
\* returned sequence is strictly ascending, chunk boundaries included.
C7_ResultStrictlyAscending ==
    (/\ SingleReturned
     /\ terminal[1] \in {"Completed", "Truncated"}
     /\ \A k \in 1..Len(received[1]) : StrictlyAscending(received[1][k].bars))
    => StrictlyAscending(outcome[1].bars)

\* C8: called directly, a chunk request that raises makes
\* get_historical_bars raise to its caller; it does not return bars.
C8_ChunkFailurePropagates ==
    (entry = "single" /\ terminal[1] = "Failed") =>
        (phase = "raised" /\ outcome[1].kind = "exception")

\* C9: when the loop runs out of passes, get_historical_bars returns
\* normally the accumulator, which holds every chunk of all 200 passes.
C9_TruncatedReturnsAccumulator ==
    \A i \in Symbols :
        terminal[i] = "Truncated" =>
            /\ outcome[i] = Value(Stitched(received[i]))
            /\ Len(received[i]) = max_iterations
            /\ entry = "single" => phase = "returned"

C9_Witness ==
    /\ SingleReturned
    /\ terminal[1] = "Truncated"
    /\ Len(outcome[1].bars) > 200
    /\ received[1][1].bars # received[1][2].bars

\* What the caller sees of a returned sequence, knowing the range it asked
\* for: whether it starts at or before the start of the range.
StartsAtOrBeforeStart(bars) ==
    bars # << >> /\ ToDatetime(dateKind, bars[1].date) <= time_range.start

\* C10: for the range asked, a retrieval that ended Completed and one that
\* ended Truncated never return the same sequence: the first starts at or
\* before the start of the range, the second is not empty and starts after
\* it.
C10_TruncatedToldFromCompleted ==
    \A i \in Symbols :
        /\ terminal[i] = "Completed" =>
              outcome[i].kind = "value" /\ StartsAtOrBeforeStart(outcome[i].bars)
        /\ terminal[i] = "Truncated" =>
              /\ outcome[i].kind = "value"
              /\ outcome[i].bars # << >>
              /\ ~StartsAtOrBeforeStart(outcome[i].bars)

C10_WitnessTruncated ==
    /\ SingleReturned
    /\ terminal[1] = "Truncated"
    /\ Len(received[1]) = 200
    /\ ~StartsAtOrBeforeStart(outcome[1].bars)

\* What the caller of get_historical_bars has in hand when the call is
\* over: whether it returned or raised, and the value.
Observed(i) == <<phase, outcome[i]>>

\* C11: an empty chunk ends the retrieval normally: no further request is
\* issued and the call returns the bars fetched so far (the empty sequence
\* when the first chunk is the empty one); and what the caller gets when a
\* chunk request failed is never what it gets from a retrieval exhausted on
\* its first chunk.
C11_ExhaustedToldFromFailed ==
    entry = "single" =>
        /\ terminal[1] = "Exhausted" =>
              /\ pc[1] = "done"
              /\ iteration[1] = Len(received[1]) + 1
              /\ Observed(1) = <<"returned", Value(Stitched(received[1]))>>
        /\ terminal[1] = "Failed" =>
              Observed(1) # <<"returned", Value(<< >>)>>

\* ------------------------------------------- claims on _compute_duration_str

\* The length of a descriptor's unit, in ticks.
UnitTicks(unit) ==
    TicksPerSecond *
        (CASE unit = "S" -> 1
           [] unit = "D" -> SecondsPerDay
           [] unit = "W" -> 7 * SecondsPerDay
           [] unit = "M" -> 30 * SecondsPerDay
           [] unit = "Y" -> 365 * SecondsPerDay
           [] OTHER -> 0)

PlannedSpan == planned.end - planned.start

\* C12: for a valid range of a whole number of seconds, the descriptor,
\* read as magnitude times unit length, is at least as long as the range.
C12_WindowCoversSpan ==
    (TimeRangeValid(planned.start, planned.end) /\ PlannedSpan % TicksPerSecond = 0) =>
        /\ planned.result.ok
        /\ planned.result.n * UnitTicks(planned.result.unit) >= PlannedSpan

\* a range of 365 days and one second, planned as 53 weeks
C12_Witness ==
    /\ PlannedSpan = (365 * SecondsPerDay + 1) * TicksPerSecond
    /\ planned.result = [ok |-> TRUE, n |-> 53, unit |-> "W"]
    /\ planned.result.n * UnitTicks("W") > PlannedSpan

\* The unit the thresholds give a span of t ticks.
ThresholdUnit(t) ==
    IF t <= UnitTicks("D") THEN "S"
    ELSE IF t <= 365 * UnitTicks("D") THEN "D"
    ELSE IF t <= 260 * UnitTicks("W") THEN "W"
    ELSE IF t <= 60 * UnitTicks("M") THEN "M"
    ELSE "Y"

\* C20: every positive span gets the unit of the ascending thresholds (one
\* day, 365 days, 260 weeks, 60 months of 30 days, else years) and, as
\* magnitude, the ceiling of the span divided by the length of that unit.
C20_UnitAndCeilingMagnitude ==
    PlannedSpan > 0 =>
        /\ planned.result.ok
        /\ planned.result.unit = ThresholdUnit(PlannedSpan)
        /\ planned.result.n = CeilDiv(PlannedSpan, UnitTicks(planned.result.unit))

\* C30: the planner never answers in months: a span of a second or more
\* gets a descriptor in seconds, days, weeks or years, since a span of more
\* than 260 weeks is also one of more than 60 months of thirty days.
C30_MonthsNeverProduced ==
    /\ planned.result.unit # "M"
    /\ PlannedSpan >= TicksPerSecond =>
          /\ planned.result.ok
          /\ planned.result.unit \in {"S", "D", "W", "Y"}

\* a span of 1820 days and one second, past the 260 weeks: 261 weeks, 61
\* months, planned as 5 years
C30_Witness ==
    /\ PlannedSpan = (1820 * SecondsPerDay + 1) * TicksPerSecond
    /\ CeilDiv(1821, 7) > 52 * 5
    /\ CeilDiv(1821, 30) > 12 * 5
    /\ planned.result = [ok |-> TRUE, n |-> 5, unit |-> "Y"]

\* --------------------------------------------------- claims on a retrieval

\* C13: a request whose range ends at or before its start is rejected with
\* an error before the provider is asked anything, neither to qualify nor
\* for bars; and the planner rejects every span of zero or fewer seconds.
C13_EmptyRangeRejectedBeforeProvider ==
    /\ (entry = "single" /\ time_range.end <= time_range.start) =>
          /\ phase = "raised"
          /\ outcome[1].kind = "exception"
          /\ qualify_calls[1] = 0
          /\ iteration[1] = 0
          /\ pc[1] = "none"
    /\ \A span \in {-SecondsPerDay * TicksPerSecond, -TicksPerSecond, -1, 0} :
          ~_compute_duration_str(0, span).ok

\* a connected adapter, and a range that ends before it starts
C13_Witness ==
    /\ entry = "single"
    /\ _connected
    /\ time_range.end < time_range.start
    /\ phase = "raised"
    /\ terminal[1] = "InvalidRange"

\* C18: the cursor of every chunk request after the first is strictly
\* earlier than the cursor of the request before it (which was answered
\* with a non-empty chunk whose earliest bar is after the range start).
C18_CursorStrictlyEarlier ==
    \A i \in Symbols :
        (pc[i] = "fetch" /\ Len(received[i]) >= 1) =>
            current_end[i] < received[i][Len(received[i])].endDateTime

\* C19: when the first chunk is not empty and its earliest bar is at or
\* before the start of the range, the retrieval makes that one chunk
\* request only and returns the bars of that chunk, all of them, in the
\* order the provider gave them.
C19_OneChunkCoversRange ==
    (/\ entry = "single"
     /\ Len(received[1]) >= 1
     /\ ToDatetime(dateKind, received[1][1].bars[1].date) <= time_range.start)
    => /\ iteration[1] = 1
       /\ Len(received[1]) = 1
       /\ pc[1] = "done"
       /\ Observed(1) = <<"returned", Value(_bars_to_ohlcv(received[1][1].bars))>>

\* the range of five days whose five daily bars come in one chunk
C19_Witness ==
    /\ SingleReturned
    /\ time_range = ScenarioRange
    /\ iteration[1] = 1
    /\ received[1][1].bars = ScenarioChunk(1)
    /\ Len(outcome[1].bars) = ScenarioBars
    /\ StrictlyAscending(outcome[1].bars)
    /\ outcome[1].bars[1].date = 0

\* C21: whenever get_historical_bars returns (it does not raise) after it
\* received one or more non-empty chunks, the value returned is those
\* chunks mapped and concatenated, the chunk received last first: nothing
\* dropped, filtered, reordered or deduplicated.
C21_ResultIsConcatenation ==
    (SingleReturned /\ Len(received[1]) >= 1) =>
        outcome[1] = Value(Stitched(received[1]))

\* C22: a retrieval asks the provider to qualify its contract exactly
\* once, and has the answer before it issues its first chunk request; when
\* the answer is empty, or an error, it issues no chunk request at all.
C22_QualifiedOnceBeforeChunks ==
    \A i \in Symbols :
        /\ qualify_calls[i] <= 1
        /\ pc[i] \in {"qualify", "fetch"} => qualify_calls[i] = 1
        /\ pc[i] = "qualify" => (resolution[i] = "pending" /\ iteration[i] = 0)
        /\ iteration[i] >= 1 => (qualify_calls[i] = 1 /\ resolution[i] = "qualified")
        /\ resolution[i] \in {"empty", "raised"} => (iteration[i] = 0 /\ pc[i] = "done")

\* the provider qualified nothing, and the call raised without a chunk request
C22_Witness ==
    /\ entry = "single"
    /\ phase = "raised"
    /\ resolution[1] = "empty"
    /\ qualify_calls[1] = 1
    /\ iteration[1] = 0

\* The chunk a retrieval received last, and the bars its accumulator starts
\* with, as many as the chunk has.
LastChunk(i) == received[i][Len(received[i])].bars
LastMapped(i) == SubSeq(all_ohlcv[i], 1, Len(LastChunk(i)))

\* C23: the bars a chunk is mapped to are as many as the provider's bars
\* and in their order, each with the date, open, high, low and close of its
\* provider bar; a volume below zero is absent in the mapped bar, a volume
\* of zero or more is kept as it is, zero included.
C23_MappingKeepsBars ==
    \A i \in Symbols :
        Len(received[i]) >= 1 =>
            /\ Len(all_ohlcv[i]) >= Len(LastChunk(i))
            /\ Len(received[i]) = 1 => Len(all_ohlcv[i]) = Len(LastChunk(i))
            /\ \A k \in 1..Len(LastChunk(i)) :
                  LET bar == LastChunk(i)[k]
                      mapped == LastMapped(i)[k]
                  IN  /\ mapped.date = bar.date
                      /\ mapped.open = bar.open
                      /\ mapped.high = bar.high
                      /\ mapped.low = bar.low
                      /\ mapped.close = bar.close
                      /\ bar.volume < 0 => mapped.volume = None
                      /\ bar.volume >= 0 => mapped.volume = Some(bar.volume)

\* a mapped chunk of two bars, the first of volume zero and the second of a
\* volume below zero
C23_Witness ==
    /\ Len(received[1]) >= 1
    /\ Len(LastChunk(1)) = 2
    /\ LastChunk(1)[1].volume = 0
    /\ LastChunk(1)[2].volume < 0
    /\ LastMapped(1)[1].volume = Some(0)
    /\ LastMapped(1)[2].volume = None
    /\ LastMapped(1)[1].open # LastMapped(1)[2].open

\* C24: every pass of the loop starts with the cursor strictly later than
\* the start of the range asked for, and the window planned from the start
\* to the cursor never fails: no retrieval ends because planning raised.
C24_PlanningNeverFails ==
    \A i \in Symbols :
        /\ pc[i] = "fetch" => current_end[i] > time_range.start
        /\ terminal[i] # "PlanFailed"

\* C27: a retrieval whose chunk request raised after one or more chunks
\* had been received returns the empty sequence, not the bars accumulated
\* from those chunks: what its caller gets is what the caller of a
\* retrieval whose first answer was empty gets.
C27_ErrorDiscardsAccumulated ==
    \A i \in Symbols :
        /\ (terminal[i] = "Failed" /\ Len(received[i]) >= 1) =>
              /\ outcome[i] = Value(<< >>)
              /\ entry = "single" => phase = "returned"
        /\ (terminal[i] = "Exhausted" /\ Len(received[i]) = 0) =>
              /\ outcome[i] = Value(<< >>)
              /\ entry = "single" => phase = "returned"

\* the request after two received chunks raised, with bars accumulated
C27_Witness ==
    /\ entry = "single"
    /\ terminal[1] = "Failed"
    /\ Len(received[1]) = 2
    /\ all_ohlcv[1] # << >>
    /\ Observed(1) = <<"returned", Value(<< >>)>>

\* C28: no retrieval is timed out while it waits for a slot of the
\* semaphore, and once a retrieval of the batch has timed out, every
\* retrieval that waits for a slot is eventually admitted.
C28_TimeoutAfterAdmission ==
    /\ [][\A i \in Symbols : pc[i] = "waiting" => terminal'[i] # "TimedOut"]_vars
    /\ \A i \in Symbols :
          (pc[i] = "waiting" /\ \E j \in Symbols : terminal[j] = "TimedOut")
              ~> (pc[i] # "waiting")

\* one slot, two symbols: symbol 2 held the slot and timed out, and symbol
\* 1, which waited for it, has been admitted
C28_Witness ==
    /\ entry = "batch"
    /\ symbols = {1, 2}
    /\ max_concurrent = 1
    /\ terminal[2] = "TimedOut"
    /\ pc[1] = "qualify"

\* C29: while a batch runs and when it has returned, the free slots of the
\* semaphore plus the retrievals admitted and not yet ended are
\* max_concurrent: a retrieval gives its slot back however it ends, by
\* returning, timing out or raising; when the batch returns every slot is
\* free.
C29_SlotsConserved ==
    (entry = "batch" /\ phase \in {"running", "returned"}) =>
        /\ semaphore + Cardinality(InFlight) = max_concurrent
        /\ semaphore \in 0..max_concurrent
        /\ phase = "returned" => (InFlight = {} /\ semaphore = max_concurrent)

\* a returned batch of three symbols on two slots: one retrieval returned
\* its bars, one timed out, one raised before its first chunk request
C29_Witness ==
    /\ BatchReturned
    /\ symbols = 1..NumSymbols
    /\ max_concurrent = MaxConcurrent
    /\ semaphore = MaxConcurrent
    /\ terminal[1] = "Completed"
    /\ terminal[2] = "TimedOut"
    /\ terminal[3] = "NotQualified"

\* ------------------------------------------------- claims on the session

\* C25: after any sequence of connect calls that succeed or raise, of
\* disconnect calls and of drops of the socket, the flag _connected is true
\* only if the socket is connected.
C25_FlagOnlyIfChannelConnected ==
    _connected => IsConnected(ib_channel)

\* C26: on an adapter on which connect was never called, a call of
\* get_historical_bars or of get_historical_bars_multiple raises: it asks
\* the provider nothing (no qualification, no chunk request), starts no
\* retrieval for any symbol, and leaves the adapter as it was.
C26_NeverConnectedRejected ==
    [][(phase = "idle" /\ phase' # "idle" /\ connect_calls = 0) =>
          /\ phase' = "raised"
          /\ \A i \in Symbols : pc'[i] = "none" /\ qualify_calls'[i] = 0
                                             /\ iteration'[i] = 0
          /\ UNCHANGED <<sessionVars, pc, qualify_calls, resolution, loopVars,
                         semaphore, results>>]_vars

\* a batch of three symbols called on a never connected adapter: it raised
C26_Witness ==
    /\ entry = "batch"
    /\ symbols = 1..NumSymbols
    /\ connect_calls = 0
    /\ ~_connected
    /\ phase = "raised"


\* C14: a batch run inside "async with" sees connect called exactly once,
\* before its first fetch, and no disconnect while it runs; however the
\* body ends (returned, raised, cancelled; fetches failed or not) the block
\* is left through __aexit__, disconnect has then been called exactly once,
\* and the session is the same whatever the fetches did: the socket is not
\* connected, the provider holds no connection, and the flag tells only
\* whether the socket was dropped before the exit.
C14_ScopedSessionLifecycle ==
    /\ entry = "batch" => connect_calls = 1
    /\ phase \in {"running", "cancelling"} => disconnect_calls = 0
    /\ scope = "inside" => (connect_calls = 1 /\ disconnect_calls = 0)
    /\ (scope = "inside" /\ phase \in {"returned", "raised", "cancelled"}) =>
          ENABLED ScopeExit
    /\ scope = "exited" =>
          /\ connect_calls = 1
          /\ disconnect_calls = 1
          /\ ~IsConnected(ib_channel)
          /\ connections = 0
          /\ _connected = (ib_channel = "dropped")

\* the block is left after a batch none of whose three fetches succeeded
C14_Witness ==
    /\ scope = "exited"
    /\ entry = "batch" /\ phase = "returned"
    /\ symbols = 1..3
    /\ terminal[1] = "QualifyRaised"
    /\ terminal[2] = "Failed"
    /\ terminal[3] = "TimedOut"
    /\ disconnect_calls = 1

\* C16: after any sequence of connect and disconnect calls the provider
\* holds at most one connection with the adapter, the one of its socket:
\* a connect on a connected socket closes that connection before it opens
\* the next.
C16_AtMostOneConnection ==
    /\ connections \in {0, 1}
    /\ (connections = 1) = IsConnected(ib_channel)

\* connect called twice in a row: the second call closed the connection
\* of the first
C16_Witness ==
    /\ connect_calls = 2
    /\ disconnect_calls = 0
    /\ ib_disconnects = 1
    /\ connections = 1
    /\ _connected

\* C15: once the cancellation of a batch call has been processed, every
\* retrieval of the batch has ended (none is past the semaphore and
\* unfinished, none still waits) and the semaphore has all its
\* max_concurrent slots free again.
C15_CancellationReleasesSlots ==
    phase = "cancelled" =>
        /\ \A i \in symbols : pc[i] = "done" /\ outcome[i].kind # "none"
        /\ InFlight = {}
        /\ semaphore = max_concurrent

\* three symbols, limit two: two retrievals cancelled in flight, one while
\* it waited for a slot
C15_Witness ==
    /\ phase = "cancelled"
    /\ symbols = 1..3
    /\ max_concurrent = 2
    /\ Cardinality({i \in symbols : terminal[i] = "Cancelled"}) = 2
    /\ Cardinality({i \in symbols : terminal[i] = "CancelledWaiting"}) = 1
    /\ semaphore = 2

\* C17: when get_historical_bars is called a second time with the same
\* request, on a connected adapter and a provider that answers every
\* request as it did the first time, the second call ends as the first
\* did: the same bars in the same order, or the same error.
C17_SecondCallSameBars ==
    (previous.called /\ phase \in {"returned", "raised"}) =>
        /\ outcome[1] = previous.outcome
        /\ terminal[1] = previous.terminal

\* both calls fetched two chunks and returned their bars
C17_Witness ==
    /\ previous.called
    /\ phase = "returned"
    /\ Len(received[1]) = 2
    /\ Len(outcome[1].bars) = 4
    /\ outcome[1] = previous.outcome

====
